---- MODULE Spec2Model ----
(***************************************************************************)
(* EmojiLikeArbiter (core/limit/arbiter.py): several bots receive the same *)
(* group message and each runs compete() against the message's emoji-like  *)
(* list, the only thing they share.  Emoji 282 is the claim mark, emoji    *)
(* 355 the confirmation mark.                                              *)
(*                                                                         *)
(* One process per bot.  Every await of compete() is one action: the two   *)
(* kinds of channel call (fetch_emoji_like, set_msg_emoji_like) take       *)
(* effect at one instant each, and the two sleeps are steps of their own.  *)
(* The bots interleave freely: the sleeps are fixed but the latency of a   *)
(* channel call is not, so no relative timing is assumed.  A call may      *)
(* raise, and then has had no effect; a fetch that answers may answer with *)
(* any part of the marks set so far (a mark need not be visible at once).  *)
(*                                                                         *)
(* Spec is the race: every bot runs compete().  SpecRun is one run of      *)
(* compete() against a message that the other members of the group like    *)
(* as they please (a participant is whoever sets emoji 282, bot or human):  *)
(* whatever marks the other bots of a race can set, the outsiders of       *)
(* SpecRun can set too, and SpecRun also records how each channel call of  *)
(* the run ended (obs1, obs4, last), which in the race would only multiply *)
(* the states.  SpecRunLive is SpecRun with the run going on, SpecAny is    *)
(* SpecRun on an event of any shape, SpecStep is the race with the bots in *)
(* step through phase 6.  SpecOrder is _decide_order called on its own,    *)
(* and SpecMsg is on_message (main.py), the caller of compete().           *)
(* SpecCrash is the race in which one bot may stop for good, SpecReliable  *)
(* the runs on a channel that neither fails nor shows less than was set.   *)
(*                                                                         *)
(* Two more classes of the plugin are modelled beside the arbiter, each in *)
(* a specification of its own: Debouncer (core/debounce.py) in             *)
(* SpecDebounce and LimitedSizeDict (core/utils.py) in SpecDict.           *)
(***************************************************************************)
EXTENDS Integers, Sequences, FiniteSets, TLC

\* ----------------------------------------------------------------- bounds
NumBots == 3
MaxSlices == 1
\* Debouncer: the clock runs from 0 to MaxTime
MaxTime == 3
\* LimitedSizeDict: its max_size (20 by default), and how many item
\* assignments a behaviour makes
max_size == 2
MaxAssign == 5

\* ------------------------------------------------------ protocol constants
_EMOJI_ID == 282
_FEEDBACK_EMOJI_ID == 355
_TIME_SLICE == 60

Bots == 1..NumBots

\* message times: one per time slice, none on a slice boundary but the first
MsgTimes == { s * _TIME_SLICE + 7 * s : s \in 0..MaxSlices }

\* fetch_emoji_like raised
Fail == [ ok |-> FALSE, emojiLikesList |-> << >> ]

VARIABLES
    evt,            \* evt[p]: the event as bot p received it
    msg_time,       \* ctx.msg_time of bot p's run
    pc,             \* where bot p's compete() stands
    verdict,        \* what compete() returned, once pc[p] = "done"
    order,          \* the local `order` of the run
    idx,            \* position of `candidate` in order (1-based)
    likes282,       \* bots whose emoji 282 is on the message
    likes355,       \* bots whose emoji 355 is on the message
    calls,          \* calls[p]: what the run has issued so far
    traced,         \* whether obs1 and last are recorded (SpecRun)
    obs1,           \* how the phase-1 fetch ended
    obs4,           \* how the phase-4 fetch ended
    last,           \* how the channel call of bot p's latest step ended
                    \* ("none": the step made no channel call)
    round,          \* SpecOrder: the claimants of the round
    call,           \* SpecOrder: the latest call of _decide_order
    prev,           \* SpecOrder: the call before it
    event,          \* SpecMsg: the message handed to on_message
    hpc,            \* SpecMsg: where on_message stands
    trace,          \* SpecMsg: what on_message has done so far, in order
    interval,       \* SpecDebounce: Debouncer.interval
    now,            \* SpecDebounce: what time.time() returns
    _cache,         \* SpecDebounce: Debouncer._cache
    hcall,          \* SpecDebounce: the call of _hit made by the latest step
    recorded,       \* SpecDebounce: per session and key, the time of the
                    \* latest _hit that returned False
    info_cache,     \* SpecDict: Downloader.info_cache, in the dict's order
    born,           \* SpecDict: per key in the dict, the number of the
                    \* assignment that inserted it
    ops,            \* SpecDict: the item assignments made so far
    setitem         \* SpecDict: the latest item assignment

\* the variables of on_message
mvars == << event, hpc, trace >>

\* the variables of the Debouncer
dvars == << interval, now, _cache, hcall, recorded >>

\* the variables of the LimitedSizeDict
lvars == << info_cache, born, ops, setitem >>

\* the variables that compete() does not touch
others == << round, call, prev, mvars, dvars, lvars >>

vars == << evt, msg_time, pc, verdict, order, idx, likes282, likes355,
           calls, traced, obs1, obs4, last, others >>

\* ---------------------------------------------------------------- helpers

Min(S) == CHOOSE m \in S : \A x \in S : m <= x

RECURSIVE sorted(_)
sorted(S) == IF S = {} THEN << >>
             ELSE LET m == Min(S) IN << m >> \o sorted(S \ {m})

Range(s) == { s[i] : i \in 1..Len(s) }

\* every listing of the likes of the members S, each member once: an item of
\* emojiLikesList carries the member's id as its tinyId
Listings(S) ==
    { [ i \in 1..Cardinality(S) |-> [ tinyId |-> s[i] ] ] :
        s \in { t \in [1..Cardinality(S) -> S] : Range(t) = S } }

\* what fetch_emoji_like can answer when `likes` are on the message: an
\* exception, or the list of the likes visible to this call
FetchResponses(likes) ==
    {Fail} \cup { [ ok |-> TRUE, emojiLikesList |-> l ] :
                    l \in UNION { Listings(S) : S \in SUBSET likes } }

Outcome(resp) == IF ~resp.ok THEN "fail"
                 ELSE IF resp.emojiLikesList = << >> THEN "empty"
                 ELSE "nonempty"

\* [] when the fetch raised; else int(item["tinyId"]) of every item for which
\* that conversion succeeds, in the order of the list
_fetch_users(resp) ==
    IF ~resp.ok THEN << >>
    ELSE LET likes == resp.emojiLikesList
             good == SelectSeq(likes, LAMBDA item : item.tinyId \in Int)
         IN  [ i \in 1..Len(good) |-> good[i].tinyId ]

_has_feedback(resp) == IF ~resp.ok THEN FALSE
                       ELSE Len(resp.emojiLikesList) > 0

\* an order that is never rotated
_decide_order_unrotated(users, t) == sorted(Range(users))

\* an order that rotates the list as fetched, neither sorted nor reduced to
\* its distinct members
_decide_order_as_fetched(users, t) ==
    LET n == Len(users)
    IN  IF n = 0 THEN << >>
        ELSE LET base == (t \div _TIME_SLICE) % n
             IN  [ i \in 1..n |-> users[((base + (i - 1)) % n) + 1] ]

\* an order that rotates by the second, not by the time slice
_decide_order_by_second(users, t) ==
    LET participants == sorted(Range(users))
        n == Len(participants)
    IN  IF n = 0 THEN << >>
        ELSE LET base == t % n
             IN  [ i \in 1..n |-> participants[((base + (i - 1)) % n) + 1] ]

\* participants = sorted(set(users)); an empty list raises ValueError, which
\* is caught and answered with []; else base = (msg_time // _TIME_SLICE) % n
\* and the list is rotated left by base
_decide_order(users, t) ==
    LET participants == sorted(Range(users))
        n == Len(participants)
    IN  IF n = 0 THEN << >>
        ELSE LET base == (t \div _TIME_SLICE) % n
             IN  [ i \in 1..n |-> participants[((base + (i - 1)) % n) + 1] ]

\* ------------------------------------------------------------------ events

\* an event field that holds an id, by what int() makes of it: an int, a
\* string of digits, some other string, or nothing (None)
IdKinds == {"int", "digits", "text", "absent"}

\* int(event.message_obj.message_id), int(event.get_self_id()) succeed
Converts(id) == id \in {"int", "digits"}

\* raw["time"]: [kind |-> "float", val |-> t] is the float t + 0.5, "nan" a
\* float without an integer value (nan, inf), "bool" the value True
EventTimes ==
    { [ kind |-> k, val |-> t ] : k \in {"int", "float"}, t \in MsgTimes }
    \cup { [ kind |-> "bool", val |-> 1 ] }
    \cup { [ kind |-> k, val |-> 0 ] : k \in {"nan", "str", "absent"} }

\* the events a bot can be handed: a raw_message that is no dict has no time
Events ==
    { e \in [ message_id : IdKinds, self_id : IdKinds,
              raw : {"dict", "other"}, time : EventTimes ] :
        e.raw # "dict" => e.time.kind = "absent" }

ValidEvent(t) ==
    [ message_id |-> "int", self_id |-> "int", raw |-> "dict",
      time |-> [ kind |-> "int", val |-> t ] ]

None == [ none |-> TRUE, raised |-> FALSE, msg_time |-> 0 ]

\* int(msg_time) raised ValueError or OverflowError
Raised == [ none |-> TRUE, raised |-> TRUE, msg_time |-> 0 ]

\* _parse_event_context: the context (its msg_time), or None; the int() of
\* the ids is inside the try, isinstance(msg_time, (int, float)) lets int,
\* bool and float through, and the int(msg_time) of the return statement,
\* which cuts a float down to its whole seconds, is outside any try
_parse_event_context(e) ==
    IF ~Converts(e.message_id) \/ ~Converts(e.self_id) THEN None
    ELSE IF e.raw # "dict" THEN None
    ELSE IF e.time.kind \notin {"int", "bool", "float", "nan"} THEN None
    ELSE IF e.time.kind = "nan" THEN Raised
    ELSE [ none |-> FALSE, raised |-> FALSE, msg_time |-> e.time.val ]

NoCalls == [ fetch282 |-> 0, mark282 |-> 0, sleep1 |-> 0, decide |-> 0,
             mark355 |-> 0, sleep6 |-> 0, fetch355 |-> 0 ]

Bump(p, f) == [ calls EXCEPT ![p][f] = @ + 1 ]

\* the record of how a channel call ended
Log(v, p, x) == IF traced THEN [ v EXCEPT ![p] = x ] ELSE v

\* no call of _decide_order has been made
NoCall == [ made |-> FALSE, users |-> << >>, msg_time |-> 0, order |-> << >> ]

\* a message that matches no parser and is not arbitrated
NoMessage == [ matched |-> FALSE, aiocqhttp |-> FALSE, private |-> TRUE,
               raw |-> "other", fields |-> FALSE, debounce_interval |-> FALSE ]

\* outside SpecMsg no on_message runs
MsgIdle == event = NoMessage /\ hpc = "end" /\ trace = << >>

\* the sessions, and the keys that hit_link and hit_resource make of a link
\* and of a resource id: f"link:{link}", f"res:{resource_id}"
Sessions == {"s1", "s2"}
Links == {"a"}
Resources == {"a"}
Keys == { "link:" \o l : l \in Links } \cup { "res:" \o r : r \in Resources }

\* no _hit has returned False for the session and key yet
Unrecorded == [ hit |-> FALSE, at |-> 0 ]

\* the latest step was no call of _hit
NoHit == [ made |-> FALSE, session |-> "s1",
           key |-> "link:a",
           ret |-> FALSE, before |-> Unrecorded ]

\* self._cache = {}: no session has a bucket
EmptyCache == [ s \in Sessions |-> [ made |-> FALSE, bucket |-> {} ] ]

\* outside SpecDebounce the Debouncer is not called
DebouncerIdle ==
    /\ interval = 0 /\ now = 0 /\ _cache = EmptyCache /\ hcall = NoHit
    /\ recorded = [ s \in Sessions |-> [ k \in Keys |-> Unrecorded ] ]

\* the urls looked up, one more than two dicts hold
Urls == 1..(max_size + 2)

\* the VideoInfo values
Infos == {"v1", "v2"}

\* no item has been assigned
NoSetItem == [ made |-> FALSE, key |-> 1, value |-> "v1", new |-> FALSE,
               full |-> FALSE ]

\* outside SpecDict the dict is left empty
DictIdle ==
    /\ info_cache = << >> /\ born = [ u \in Urls |-> 0 ] /\ ops = 0
    /\ setitem = NoSetItem

\* outside SpecOrder nothing calls _decide_order on its own
OthersIdle ==
    /\ round = {} /\ call = NoCall /\ prev = NoCall /\ MsgIdle
    /\ DebouncerIdle /\ DictIdle

Start ==
    /\ OthersIdle
    /\ \E t \in MsgTimes : evt = [ p \in Bots |-> ValidEvent(t) ]
    /\ msg_time = [ p \in Bots |-> 0 ]
    /\ verdict = [ p \in Bots |-> FALSE ]
    /\ order = [ p \in Bots |-> << >> ]
    /\ idx = [ p \in Bots |-> 0 ]
    /\ likes282 = {}
    /\ likes355 = {}
    /\ obs1 = [ p \in Bots |-> "none" ]
    /\ obs4 = [ p \in Bots |-> "none" ]
    /\ last = [ p \in Bots |-> "none" ]
    /\ calls = [ p \in Bots |-> NoCalls ]

\* the race: the message reaches every bot
Init ==
    /\ Start
    /\ pc = [ p \in Bots |-> "parse" ]
    /\ traced = FALSE

\* one run: the message reaches bot s, the others are members of the group
InitRun ==
    /\ Start
    /\ \E s \in Bots : pc = [ p \in Bots |-> IF p = s THEN "parse" ELSE "outsider" ]
    /\ traced = TRUE

\* compete() returns v
Return(p, v) ==
    /\ pc' = [ pc EXCEPT ![p] = "done" ]
    /\ verdict' = [ verdict EXCEPT ![p] = v ]

\* a loop that jumps ahead to the bot's own place when it has one further on
LoopTopSkipsAhead(p, ord, i) ==
    LET own == { j \in i..Len(ord) : ord[j] = p }
        to == IF own = {} THEN i ELSE CHOOSE j \in own : TRUE
    IN  /\ idx' = [ idx EXCEPT ![p] = to ]
        /\ IF to > Len(ord) THEN Return(p, FALSE)
           ELSE /\ pc' = [ pc EXCEPT ![p] =
                            IF ord[to] = p THEN "set355" ELSE "sleep6" ]
                /\ UNCHANGED verdict

\* a loop in which the bot only watches: it sets no 355 at its own place
LoopTopOnlyWatches(p, ord, i) ==
    /\ idx' = [ idx EXCEPT ![p] = i ]
    /\ IF i > Len(ord) THEN Return(p, FALSE)
       ELSE /\ pc' = [ pc EXCEPT ![p] = "sleep6" ]
            /\ UNCHANGED verdict

\* the top of the `for candidate in order` loop with the pointer at i: past
\* the end the loop is over and compete() returns False; at the bot's own
\* place it goes to set 355; elsewhere straight to the sleep
LoopTop(p, ord, i) ==
    /\ idx' = [ idx EXCEPT ![p] = i ]
    /\ IF i > Len(ord) THEN Return(p, FALSE)
       ELSE /\ pc' = [ pc EXCEPT ![p] =
                        IF ord[i] = p THEN "set355" ELSE "sleep6" ]
            /\ UNCHANGED verdict

\* ctx = self._parse_event_context(event); if ctx is None: return False
\* (an exception of _parse_event_context leaves compete() as it is)
Parse(p) ==
    /\ pc[p] = "parse"
    /\ LET ctx == _parse_event_context(evt[p])
       IN  IF ctx.raised
           THEN /\ pc' = [ pc EXCEPT ![p] = "raised" ]
                /\ UNCHANGED << msg_time, verdict >>
           ELSE IF ctx.none
           THEN /\ Return(p, FALSE)
                /\ UNCHANGED msg_time
           ELSE /\ msg_time' = [ msg_time EXCEPT ![p] = ctx.msg_time ]
                /\ pc' = [ pc EXCEPT ![p] = "phase1" ]
                /\ UNCHANGED verdict
    /\ UNCHANGED << evt, order, idx, likes282, likes355, calls, traced, others,
                    obs1, obs4, last >>

\* a phase 1 that never leaves the race to an earlier claimant
AbstainNever(resp) == FALSE

\* a phase 1 that also gives up when the fetch raised
AbstainOnFailure(resp) == ~resp.ok \/ _fetch_users(resp) # << >>

\* users = await self._fetch_users(bot, mid); if users:
Abstain(resp) == _fetch_users(resp) # << >>

\* a phase 1 whose fetch lets the exception of fetch_emoji_like through
Phase1Raises(p) ==
    /\ pc[p] = "phase1"
    /\ \E resp \in FetchResponses(likes282) :
         /\ obs1' = Log(obs1, p, Outcome(resp))
         /\ last' = Log(last, p, Outcome(resp))
         /\ IF ~resp.ok
            THEN /\ pc' = [ pc EXCEPT ![p] = "raised" ]
                 /\ UNCHANGED verdict
            ELSE IF Abstain(resp)
            THEN Return(p, FALSE)
            ELSE /\ pc' = [ pc EXCEPT ![p] = "phase2" ]
                 /\ UNCHANGED verdict
    /\ calls' = Bump(p, "fetch282")
    /\ UNCHANGED << evt, msg_time, order, idx, likes282, likes355, traced,
                    others, obs4 >>

\* Phase 1: the fetch of 282; if users: return False
Phase1(p) ==
    /\ pc[p] = "phase1"
    /\ \E resp \in FetchResponses(likes282) :
         /\ obs1' = Log(obs1, p, Outcome(resp))
         /\ last' = Log(last, p, Outcome(resp))
         /\ IF Abstain(resp)
            THEN Return(p, FALSE)
            ELSE /\ pc' = [ pc EXCEPT ![p] = "phase2" ]
                 /\ UNCHANGED verdict
    /\ calls' = Bump(p, "fetch282")
    /\ UNCHANGED << evt, msg_time, order, idx, likes282, likes355, traced, others, obs4 >>

\* a phase 2 that logs the exception and goes on, as phase 6 does
Phase2IgnoresFailure(p) ==
    /\ pc[p] = "phase2"
    /\ \E ok \in BOOLEAN :
         /\ likes282' = IF ok THEN likes282 \cup {p} ELSE likes282
         /\ last' = Log(last, p, IF ok THEN "ok" ELSE "fail")
    /\ pc' = [ pc EXCEPT ![p] = "phase3" ]
    /\ calls' = Bump(p, "mark282")
    /\ UNCHANGED << evt, msg_time, verdict, order, idx, likes355, traced, others,
                    obs1, obs4 >>

\* a phase 2 that sets the 282 again when the set raised
Phase2Retries(p) ==
    /\ pc[p] = "phase2"
    /\ \E ok \in BOOLEAN :
         /\ likes282' = IF ok THEN likes282 \cup {p} ELSE likes282
         /\ last' = Log(last, p, IF ok THEN "ok" ELSE "fail")
         /\ pc' = [ pc EXCEPT ![p] = IF ok THEN "phase3" ELSE "phase2" ]
    /\ calls' = Bump(p, "mark282")
    /\ UNCHANGED << evt, msg_time, verdict, order, idx, likes355, traced, others,
                    obs1, obs4 >>

\* Phase 2: set_msg_emoji_like(282); an exception returns False
Phase2(p) ==
    /\ pc[p] = "phase2"
    /\ \E ok \in BOOLEAN :
         IF ok
         THEN /\ likes282' = likes282 \cup {p}
              /\ last' = Log(last, p, "ok")
              /\ pc' = [ pc EXCEPT ![p] = "phase3" ]
              /\ UNCHANGED verdict
         ELSE /\ last' = Log(last, p, "fail")
              /\ Return(p, FALSE)
              /\ UNCHANGED likes282
    /\ calls' = Bump(p, "mark282")
    /\ UNCHANGED << evt, msg_time, order, idx, likes355, traced, others, obs1, obs4 >>

\* Phase 3: await asyncio.sleep(self._WAIT_SEC)
Phase3(p) ==
    /\ pc[p] = "phase3"
    /\ pc' = [ pc EXCEPT ![p] = "phase4" ]
    /\ last' = Log(last, p, "none")
    /\ calls' = Bump(p, "sleep1")
    /\ UNCHANGED << evt, msg_time, verdict, order, idx, likes282, likes355,
                    traced, others, obs1, obs4 >>

\* a phase 4 that gives up when it collects nobody
CollectFailClosed(p, users) ==
    IF users = << >>
    THEN /\ Return(p, FALSE)
         /\ calls' = Bump(p, "fetch282")
         /\ UNCHANGED << order, idx >>
    ELSE LET ord == _decide_order(users, msg_time[p])
         IN  /\ order' = [ order EXCEPT ![p] = ord ]
             /\ calls' = [ calls EXCEPT ![p].fetch282 = @ + 1,
                                        ![p].decide = @ + 1 ]
             /\ LoopTop(p, ord, 1)

\* a phase 4 without its `if not users`: phase 5 gets whatever was fetched
CollectNoShortCut(p, users) ==
    LET ord == _decide_order(users, msg_time[p])
    IN  /\ order' = [ order EXCEPT ![p] = ord ]
        /\ calls' = [ calls EXCEPT ![p].fetch282 = @ + 1,
                                   ![p].decide = @ + 1 ]
        /\ IF ord = << >>
           THEN Return(p, FALSE) /\ UNCHANGED idx
           ELSE LoopTop(p, ord, 1)

\* a phase 4 that, collecting nobody, waits the claim window once more
CollectWaitsAgain(p, users) ==
    IF users = << >>
    THEN /\ pc' = [ pc EXCEPT ![p] = "phase3" ]
         /\ calls' = Bump(p, "fetch282")
         /\ UNCHANGED << verdict, order, idx >>
    ELSE LET ord == _decide_order(users, msg_time[p])
         IN  /\ order' = [ order EXCEPT ![p] = ord ]
             /\ calls' = [ calls EXCEPT ![p].fetch282 = @ + 1,
                                        ![p].decide = @ + 1 ]
             /\ IF ord = << >>
                THEN Return(p, FALSE) /\ UNCHANGED idx
                ELSE LoopTop(p, ord, 1)

\* what phases 4 and 5 do with the users fetched: nothing suspends between
\* the return of the fetch and the top of the loop
Collect(p, users) ==
    IF users = << >>
    THEN /\ Return(p, TRUE)
         /\ calls' = Bump(p, "fetch282")
         /\ UNCHANGED << order, idx >>
    ELSE LET ord == _decide_order(users, msg_time[p])
         IN  /\ order' = [ order EXCEPT ![p] = ord ]
             /\ calls' = [ calls EXCEPT ![p].fetch282 = @ + 1,
                                        ![p].decide = @ + 1 ]
             /\ IF ord = << >>
                THEN Return(p, FALSE) /\ UNCHANGED idx
                ELSE LoopTop(p, ord, 1)

\* Phase 4 and phase 5
Phase4(p) ==
    /\ pc[p] = "phase4"
    /\ \E resp \in FetchResponses(likes282) :
         /\ obs4' = Log(obs4, p, Outcome(resp))
         /\ last' = Log(last, p, Outcome(resp))
         /\ Collect(p, _fetch_users(resp))
    /\ UNCHANGED << evt, msg_time, likes282, likes355, traced, others, obs1 >>

\* a phase 6 in which an exception of the own set of 355 ends the run, as an
\* exception of the set of 282 does in phase 2
Set355AbortsOnFailure(p) ==
    /\ pc[p] = "set355"
    /\ \E ok \in BOOLEAN :
         IF ok
         THEN /\ likes355' = likes355 \cup {p}
              /\ last' = Log(last, p, "ok")
              /\ pc' = [ pc EXCEPT ![p] = "sleep6" ]
              /\ UNCHANGED verdict
         ELSE /\ last' = Log(last, p, "fail")
              /\ Return(p, FALSE)
              /\ UNCHANGED likes355
    /\ calls' = Bump(p, "mark355")
    /\ UNCHANGED << evt, msg_time, order, idx, likes282, traced, others, obs1, obs4 >>

\* Phase 6, candidate == ctx.self_id: set_msg_emoji_like(355), an exception
\* is logged and the run goes on
Set355(p) ==
    /\ pc[p] = "set355"
    /\ \E ok \in BOOLEAN :
         /\ likes355' = IF ok THEN likes355 \cup {p} ELSE likes355
         /\ last' = Log(last, p, IF ok THEN "ok" ELSE "fail")
    /\ pc' = [ pc EXCEPT ![p] = "sleep6" ]
    /\ calls' = Bump(p, "mark355")
    /\ UNCHANGED << evt, msg_time, verdict, order, idx, likes282, traced, others,
                    obs1, obs4 >>

\* Phase 6: await asyncio.sleep(self._FEEDBACK_WAIT_SEC)
Sleep6(p) ==
    /\ pc[p] = "sleep6"
    /\ pc' = [ pc EXCEPT ![p] = "fetch355" ]
    /\ last' = Log(last, p, "none")
    /\ calls' = Bump(p, "sleep6")
    /\ UNCHANGED << evt, msg_time, verdict, order, idx, likes282, likes355,
                    traced, others, obs1, obs4 >>

\* a loop in which whoever sees a 355 takes the win
DecideAnyFeedbackWins(p, fb) ==
    IF fb
    THEN /\ Return(p, TRUE)
         /\ UNCHANGED idx
    ELSE LoopTop(p, order[p], idx[p] + 1)

\* a loop that, seeing no 355, waits for the same candidate once more
DecideWaitsForCandidate(p, fb) ==
    IF fb
    THEN /\ Return(p, order[p][idx[p]] = p)
         /\ UNCHANGED idx
    ELSE /\ pc' = [ pc EXCEPT ![p] = "sleep6" ]
         /\ UNCHANGED << idx, verdict >>

\* what the loop does with the answer of _has_feedback
Decide(p, fb) ==
    IF fb
    THEN /\ Return(p, order[p][idx[p]] = p)
         /\ UNCHANGED idx
    ELSE LoopTop(p, order[p], idx[p] + 1)

\* a phase 6 that, seeing no 355, fetches the 282 again and recomputes the
\* order before it moves to the next candidate
Fetch355Refreeze(p) ==
    /\ pc[p] = "fetch355"
    /\ \E resp \in FetchResponses(likes355) :
         /\ last' = Log(last, p, Outcome(resp))
         /\ IF _has_feedback(resp)
            THEN /\ Return(p, order[p][idx[p]] = p)
                 /\ calls' = Bump(p, "fetch355")
                 /\ UNCHANGED << idx, order >>
            ELSE \E again \in FetchResponses(likes282) :
                   LET ord == _decide_order(_fetch_users(again), msg_time[p])
                   IN  /\ order' = [ order EXCEPT ![p] = ord ]
                       /\ calls' = [ calls EXCEPT ![p].fetch355 = @ + 1,
                                                  ![p].fetch282 = @ + 1,
                                                  ![p].decide = @ + 1 ]
                       /\ LoopTop(p, ord, idx[p] + 1)
    /\ UNCHANGED << evt, msg_time, likes282, likes355, traced, others, obs1, obs4 >>

\* Phase 6: if await self._has_feedback(bot, mid): return candidate == self_id
Fetch355(p) ==
    /\ pc[p] = "fetch355"
    /\ \E resp \in FetchResponses(likes355) :
         /\ last' = Log(last, p, Outcome(resp))
         /\ Decide(p, _has_feedback(resp))
    /\ calls' = Bump(p, "fetch355")
    /\ UNCHANGED << evt, msg_time, order, likes282, likes355, traced, others, obs1, obs4 >>

Next ==
    \E p \in Bots :
        \/ Parse(p)
        \/ Phase1(p)
        \/ Phase2(p)
        \/ Phase3(p)
        \/ Phase4(p)
        \/ Set355(p)
        \/ Sleep6(p)
        \/ Fetch355(p)

Spec == Init /\ [][Next]_vars

\* a member of the group who runs no compete() sets emoji 282 on the message
Like282(q) ==
    /\ pc[q] = "outsider"
    /\ q \notin likes282
    /\ likes282' = likes282 \cup {q}
    /\ UNCHANGED << evt, msg_time, pc, verdict, order, idx, likes355, calls,
                    traced, others, obs1, obs4, last >>

\* a member of the group who runs no compete() sets emoji 355 on the message
Like355(q) ==
    /\ pc[q] = "outsider"
    /\ q \notin likes355
    /\ likes355' = likes355 \cup {q}
    /\ UNCHANGED << evt, msg_time, pc, verdict, order, idx, likes282, calls,
                    traced, others, obs1, obs4, last >>

NextRun ==
    \/ Next
    \/ \E q \in Bots : Like282(q) \/ Like355(q)

SpecRun == InitRun /\ [][NextRun]_vars

\* the run goes on: every await of compete() comes back, the channel calls
\* by answering or raising, the sleeps by ending
SpecRunLive == InitRun /\ [][NextRun]_vars /\ WF_vars(Next)

\* one run on any event: bot s is handed an event of any shape
InitAny ==
    /\ OthersIdle
    /\ \E s \in Bots, e \in Events :
         /\ evt = [ p \in Bots |-> IF p = s THEN e ELSE ValidEvent(0) ]
         /\ pc = [ p \in Bots |-> IF p = s THEN "parse" ELSE "outsider" ]
    /\ msg_time = [ p \in Bots |-> 0 ]
    /\ verdict = [ p \in Bots |-> FALSE ]
    /\ order = [ p \in Bots |-> << >> ]
    /\ idx = [ p \in Bots |-> 0 ]
    /\ likes282 = {}
    /\ likes355 = {}
    /\ obs1 = [ p \in Bots |-> "none" ]
    /\ obs4 = [ p \in Bots |-> "none" ]
    /\ last = [ p \in Bots |-> "none" ]
    /\ calls = [ p \in Bots |-> NoCalls ]
    /\ traced = TRUE

SpecAny == InitAny /\ [][NextRun]_vars

\* ------------------------------------------------------------ the crash
\* the steps of bot p's compete()
Run(p) ==
    \/ Parse(p)
    \/ Phase1(p)
    \/ Phase2(p)
    \/ Phase3(p)
    \/ Phase4(p)
    \/ Set355(p)
    \/ Sleep6(p)
    \/ Fetch355(p)

\* the bot that may stop for good at any await (it crashes, or a call of
\* its never comes back)
Crasher == 1

\* SpecCrash: the race in which every bot but the crasher goes on
SpecCrash ==
    Init /\ [][Next]_vars /\ \A p \in Bots \ {Crasher} : WF_vars(Run(p))

\* ----------------------------------------------------- a reliable channel
\* SpecReliable: one bot or two are handed the message, no call raises, and
\* every fetch answers with all the likes set before it.

\* what a fetch that shows every like logs of the likes S
Seen(S) == IF S = {} THEN "empty" ELSE "nonempty"

\* the step of bot p is one that a channel without failures and without
\* stale reads gives
ReliableStep(p) ==
    /\ pc[p] = "phase1" => obs1'[p] = Seen(likes282)
    /\ pc[p] = "phase2" => p \in likes282'
    /\ pc[p] = "phase4"
       => /\ obs4'[p] = Seen(likes282)
          /\ likes282 # {}
             => order'[p] = _decide_order(sorted(likes282), msg_time[p])
    /\ pc[p] = "set355" => p \in likes355'
    /\ pc[p] = "fetch355" => last'[p] = Seen(likes355)

InitReliable ==
    /\ Start
    /\ \E R \in { S \in SUBSET Bots : Cardinality(S) \in 1..2 } :
         pc = [ p \in Bots |-> IF p \in R THEN "parse" ELSE "outsider" ]
    /\ traced = TRUE

NextReliable == \E p \in Bots : Run(p) /\ ReliableStep(p)

\* the runs go on: every await comes back (a step of Next is possible exactly
\* when a step of NextReliable is: the answer of a call that succeeds is one
\* of the answers Next draws from)
SpecReliable == InitReliable /\ [][NextReliable]_vars /\ WF_vars(Next)

\* --------------------------------------------------------------- in step
\* SpecStep: the race with the bots in step through phase 6.  Nobody enters
\* phase 6 before every bot has returned or frozen its order; then window k
\* is the same for all: no bot is a candidate ahead of another, and the
\* candidate's set of 355 comes before anybody's fetch of that window.

InPhase6(p) == pc[p] \in {"set355", "sleep6", "fetch355"}

\* bot p may take its next step of phase 6
InStep(p) ==
    /\ \A q \in Bots : pc[q] = "done" \/ InPhase6(q)
    /\ \A q \in Bots : InPhase6(q) => idx[p] <= idx[q]
    /\ pc[p] = "fetch355"
       => \A q \in Bots : ~(pc[q] = "set355" /\ idx[q] = idx[p])

NextStep ==
    \E p \in Bots :
        \/ Parse(p)
        \/ Phase1(p)
        \/ Phase2(p)
        \/ Phase3(p)
        \/ Phase4(p)
        \/ InStep(p) /\ Set355(p)
        \/ InStep(p) /\ Sleep6(p)
        \/ InStep(p) /\ Fetch355(p)

SpecStep == Init /\ [][NextStep]_vars

\* ---------------------------------------------------------- _decide_order
\* SpecOrder: calls of _decide_order on their own.  A round has a set of
\* claimants; each of two calls is handed some list of them as a fetch may
\* give it (any order, members repeated) and some message time.

\* message times at both ends of the time slices 0..NumBots
OrderTimes ==
    { s * _TIME_SLICE + o : s \in 0..NumBots, o \in {0, _TIME_SLICE - 1} }

\* the lists of at most NumBots items that name exactly the members S
UserLists(S) ==
    { l \in UNION { [1..n -> S] : n \in 0..NumBots } : Range(l) = S }

InitOrder ==
    /\ round \in SUBSET Bots
    /\ call = NoCall
    /\ prev = NoCall
    /\ MsgIdle /\ DebouncerIdle /\ DictIdle
    /\ evt = [ p \in Bots |-> ValidEvent(0) ]
    /\ msg_time = [ p \in Bots |-> 0 ]
    /\ pc = [ p \in Bots |-> "outsider" ]
    /\ verdict = [ p \in Bots |-> FALSE ]
    /\ order = [ p \in Bots |-> << >> ]
    /\ idx = [ p \in Bots |-> 0 ]
    /\ likes282 = {}
    /\ likes355 = {}
    /\ obs1 = [ p \in Bots |-> "none" ]
    /\ obs4 = [ p \in Bots |-> "none" ]
    /\ last = [ p \in Bots |-> "none" ]
    /\ calls = [ p \in Bots |-> NoCalls ]
    /\ traced = FALSE

\* order = self._decide_order(users, ctx.msg_time); a behaviour is two calls
DecideOrder ==
    /\ ~prev.made
    /\ \E users \in UserLists(round), t \in OrderTimes :
         call' = [ made |-> TRUE, users |-> users, msg_time |-> t,
                   order |-> _decide_order(users, t) ]
    /\ prev' = call
    /\ UNCHANGED << round, mvars, dvars, lvars, evt, msg_time, pc, verdict,
                    order, idx, likes282, likes355, calls, traced, obs1, obs4,
                    last >>

NextOrder == DecideOrder

SpecOrder == InitOrder /\ [][NextOrder]_vars

\* ------------------------------------------------------------- on_message
\* SpecMsg: ParserPlugin.on_message (main.py) on one message.  Its arbiter
\* is core.arbiter.EmojiLikeArbiter, called as compete(bot=..., ctx=...):
\* all that is taken of it here is that the call returns True or False.

\* the messages: whether a parser's pattern matches the text, whether the
\* event is an AiocqhttpMessageEvent, whether the chat is private, what
\* raw_message is, whether int() of its three fields succeeds, and whether
\* config["debounce_interval"] is set
Messages ==
    [ matched : BOOLEAN, aiocqhttp : BOOLEAN, private : BOOLEAN,
      raw : {"dict", "other"}, fields : BOOLEAN,
      debounce_interval : BOOLEAN ]

\* what await self.arbiter.compete(...) can return
compete == BOOLEAN

\* no compete() runs while on_message does
ArbiterIdle ==
    /\ evt = [ p \in Bots |-> ValidEvent(0) ]
    /\ msg_time = [ p \in Bots |-> 0 ]
    /\ pc = [ p \in Bots |-> "outsider" ]
    /\ verdict = [ p \in Bots |-> FALSE ]
    /\ order = [ p \in Bots |-> << >> ]
    /\ idx = [ p \in Bots |-> 0 ]
    /\ likes282 = {}
    /\ likes355 = {}
    /\ obs1 = [ p \in Bots |-> "none" ]
    /\ obs4 = [ p \in Bots |-> "none" ]
    /\ last = [ p \in Bots |-> "none" ]
    /\ calls = [ p \in Bots |-> NoCalls ]
    /\ traced = FALSE

avars == << evt, msg_time, pc, verdict, order, idx, likes282, likes355,
            calls, traced, obs1, obs4, last >>

InitMsg ==
    /\ ArbiterIdle
    /\ round = {} /\ call = NoCall /\ prev = NoCall
    /\ DebouncerIdle /\ DictIdle
    /\ event \in Messages
    /\ hpc = "match"
    /\ trace = << >>

\* on_message leaves the place it stands at for `to`
Goto(to) ==
    /\ hpc' = to
    /\ UNCHANGED << event, round, call, prev, dvars, lvars, avars >>

\* the match of the text against the parsers' patterns:
\* if searched is None: return
Matching ==
    /\ hpc = "match"
    /\ Goto(IF event.matched THEN "arbitrate" ELSE "end")
    /\ UNCHANGED trace

\* the arbitration block up to the call of compete(): it is entered for a
\* group message of aiocqhttp only; a raw_message that is no dict returns,
\* an int() that fails on a field raises
Arbitration ==
    /\ hpc = "arbitrate"
    /\ Goto(IF event.aiocqhttp /\ ~event.private
            THEN IF event.raw # "dict" THEN "end"
                 ELSE IF ~event.fields THEN "raised"
                 ELSE "compete"
            ELSE "debounce")
    /\ UNCHANGED trace

\* an on_message that goes on whatever compete() returned
GateOpen(is_win) == "debounce"

\* if not is_win: return
Gate(is_win) == IF is_win THEN "debounce" ELSE "end"

\* is_win = await self.arbiter.compete(...)
Compete ==
    /\ hpc = "compete"
    /\ \E is_win \in compete :
         /\ trace' = Append(trace, IF is_win THEN "win" ELSE "lose")
         /\ Goto(Gate(is_win))

\* if self.config["debounce_interval"] and self.debouncer.hit(umo, link):
\* return
DebouncerHit ==
    /\ hpc = "debounce"
    /\ IF event.debounce_interval
       THEN \E hit \in BOOLEAN :
              /\ trace' = Append(trace, "debounce")
              /\ Goto(IF hit THEN "end" ELSE "parse")
       ELSE /\ Goto("parse")
            /\ UNCHANGED trace

\* parse_res = await self.parser_map[keyword].parse(keyword, searched)
ParserParse ==
    /\ hpc = "parse"
    /\ trace' = Append(trace, "parse")
    /\ \E ok \in BOOLEAN : Goto(IF ok THEN "send" ELSE "raised")

\* await self._send_parse_result(event, parse_res)
SendParseResult ==
    /\ hpc = "send"
    /\ trace' = Append(trace, "send")
    /\ \E ok \in BOOLEAN : Goto(IF ok THEN "end" ELSE "raised")

NextMsg ==
    \/ Matching
    \/ Arbitration
    \/ Compete
    \/ DebouncerHit
    \/ ParserParse
    \/ SendParseResult

SpecMsg == InitMsg /\ [][NextMsg]_vars

\* ---------------------------------------------------------------- Debouncer
\* SpecDebounce: one Debouncer (core/debounce.py) with any interval, called
\* through hit_link and hit_resource while the clock goes on.  _hit has no
\* await: a call is one step.  The clock never goes back.

\* cfg.debounce_interval: negative, zero, positive
Intervals == {-1, 0, 1, 2}

InitDebounce ==
    /\ ArbiterIdle
    /\ round = {} /\ call = NoCall /\ prev = NoCall /\ MsgIdle /\ DictIdle
    /\ interval \in Intervals
    /\ now = 0
    /\ _cache = EmptyCache
    /\ hcall = NoHit
    /\ recorded = [ s \in Sessions |-> [ k \in Keys |-> Unrecorded ] ]

\* a _hit that, on a key it finds in the bucket, records the time anew
_hit_refreshing(session, key) ==
    /\ IF interval <= 0
       THEN /\ hcall' = [ made |-> TRUE, session |-> session, key |-> key,
                          ret |-> FALSE, before |-> recorded[session][key] ]
            /\ UNCHANGED << _cache, recorded >>
       ELSE LET expire == now - interval
                kept == { e \in _cache[session].bucket : ~(e.ts < expire) }
                found == \E e \in kept : e.key = key
                rest == { e \in kept : e.key # key }
            IN  /\ _cache' = [ _cache EXCEPT ![session] =
                                 [ made |-> TRUE,
                                   bucket |-> rest \cup {[ key |-> key, ts |-> now ]} ] ]
                /\ hcall' = [ made |-> TRUE, session |-> session, key |-> key,
                              ret |-> found, before |-> recorded[session][key] ]
                /\ recorded' = IF found THEN recorded
                               ELSE [ recorded EXCEPT ![session][key] =
                                        [ hit |-> TRUE, at |-> now ] ]
    /\ UNCHANGED << interval, now, avars, round, call, prev, mvars, lvars >>

\* def _hit(self, session, key): False at once when interval <= 0; else the
\* bucket of the session is made if missing, its entries with ts < now -
\* interval are dropped, a key still in it is a hit (True), and a key not in
\* it is recorded with the time now (False)
_hit(session, key) ==
    /\ IF interval <= 0
       THEN /\ hcall' = [ made |-> TRUE, session |-> session, key |-> key,
                          ret |-> FALSE, before |-> recorded[session][key] ]
            /\ UNCHANGED << _cache, recorded >>
       ELSE LET expire == now - interval
                kept == { e \in _cache[session].bucket : ~(e.ts < expire) }
                found == \E e \in kept : e.key = key
            IN  /\ _cache' = [ _cache EXCEPT ![session] =
                                 [ made |-> TRUE,
                                   bucket |-> IF found THEN kept
                                              ELSE kept \cup {[ key |-> key, ts |-> now ]} ] ]
                /\ hcall' = [ made |-> TRUE, session |-> session, key |-> key,
                              ret |-> found, before |-> recorded[session][key] ]
                /\ recorded' = IF found THEN recorded
                               ELSE [ recorded EXCEPT ![session][key] =
                                        [ hit |-> TRUE, at |-> now ] ]
    /\ UNCHANGED << interval, now, avars, round, call, prev, mvars, lvars >>

\* return self._hit(session, f"link:{link}")
hit_link(session, link) == _hit(session, "link:" \o link)

\* return self._hit(session, f"res:{resource_id}")
hit_resource(session, resource_id) == _hit(session, "res:" \o resource_id)

\* a second passes
Tick ==
    /\ now < MaxTime
    /\ now' = now + 1
    /\ hcall' = NoHit
    /\ UNCHANGED << interval, _cache, recorded, avars, round, call, prev,
                    mvars, lvars >>

NextDebounce ==
    \/ \E s \in Sessions, l \in Links : hit_link(s, l)
    \/ \E s \in Sessions, r \in Resources : hit_resource(s, r)
    \/ Tick

SpecDebounce == InitDebounce /\ [][NextDebounce]_vars

\* ---------------------------------------------------------- LimitedSizeDict
\* SpecDict: a LimitedSizeDict (core/utils.py) made empty, as
\* Downloader.info_cache is, and assigned items at will.  The dict is the
\* sequence of its items in the order OrderedDict keeps.

keys(d) == { d[i].key : i \in 1..Len(d) }

InitDict ==
    /\ ArbiterIdle
    /\ round = {} /\ call = NoCall /\ prev = NoCall /\ MsgIdle /\ DebouncerIdle
    /\ info_cache = << >>
    /\ born = [ u \in Urls |-> 0 ]
    /\ ops = 0
    /\ setitem = NoSetItem

\* a __setitem__ that moves a key assigned again to the end of the order
__setitem__moves_to_end(key, value) ==
    LET without == SelectSeq(info_cache, LAMBDA e : e.key # key)
        put == Append(without, [ key |-> key, value |-> value ])
        out == IF Len(put) > max_size THEN Tail(put) ELSE put
    IN  /\ info_cache' = out
        /\ born' = [ u \in Urls |->
                       IF u \notin keys(out) THEN 0
                       ELSE IF u \in keys(info_cache) THEN born[u]
                       ELSE ops + 1 ]

\* super().__setitem__(key, value): a key of the dict keeps its place and
\* takes the value, a new key goes to the end;
\* if len(self) > self.max_size: self.popitem(last=False) drops the first
__setitem__(key, value) ==
    LET at == { i \in 1..Len(info_cache) : info_cache[i].key = key }
        put == IF at = {}
               THEN Append(info_cache, [ key |-> key, value |-> value ])
               ELSE [ i \in 1..Len(info_cache) |->
                        IF i \in at THEN [ key |-> key, value |-> value ]
                        ELSE info_cache[i] ]
        out == IF Len(put) > max_size THEN Tail(put) ELSE put
    IN  /\ info_cache' = out
        /\ born' = [ u \in Urls |->
                       IF u \notin keys(out) THEN 0
                       ELSE IF u \in keys(info_cache) THEN born[u]
                       ELSE ops + 1 ]

\* self.info_cache[url] = info
SetItem ==
    /\ ops < MaxAssign
    /\ \E url \in Urls, info \in Infos :
         /\ __setitem__(url, info)
         /\ setitem' = [ made |-> TRUE, key |-> url, value |-> info,
                         new |-> url \notin keys(info_cache),
                         full |-> Len(info_cache) = max_size ]
    /\ ops' = ops + 1
    /\ UNCHANGED << avars, round, call, prev, mvars, dvars >>

NextDict == SetItem

SpecDict == InitDict /\ [][NextDict]_vars

\* ------------------------------------------------------------------ claims

Done(p) == pc[p] = "done"
Won(p) == Done(p) /\ verdict[p]
Lost(p) == Done(p) /\ ~verdict[p]

\* the calls of a run that ended in phase 1, and of one that ended in phase 2
OneFetch == [ NoCalls EXCEPT !.fetch282 = 1 ]
FetchAndMark == [ NoCalls EXCEPT !.fetch282 = 1, !.mark282 = 1 ]

\* C1: no double-action: of the bots that run compete() for one message, in
\* every interleaving and under any failures of the channel, at most one
\* gets True.
C1_NoDoubleAction == Cardinality({ p \in Bots : Won(p) }) <= 1

\* C2: sequential failover: three bots computed the order <<A, B, C>> and no
\* 355 but C's is ever set on the message; then the runs of A and B return
\* False (and the only run that returns True is C's).
C2_SequentialFailover ==
    \A A, B, C \in Bots :
        ( /\ order[A] = << A, B, C >>
          /\ order[B] = << A, B, C >>
          /\ order[C] = << A, B, C >>
          /\ likes355 \subseteq {C} )
        => \A p \in Bots : Won(p) => p = C

\* C3: exhaustion: as long as no 355 is on the message (so that none can
\* have been observed in any window), every run that has returned has
\* returned False.
C3_Exhaustion == likes355 = {} => \A p \in Bots : ~Won(p)

C5_AlreadyClaimed ==
    \A p \in Bots :
        obs1[p] = "nonempty"
        => /\ Lost(p)
           /\ calls[p] = OneFetch
           /\ p \notin likes282 /\ p \notin likes355

C5_Witness == \E p \in Bots : obs1[p] = "nonempty" /\ Lost(p)

C8_NoParticipantNoWinner ==
    \A p \in Bots :
        (Done(p) /\ calls[p].fetch282 = 2 /\ order[p] = << >>) => ~verdict[p]

\* C9: phase 2 failure: once the set of emoji 282 has been issued, either it
\* raised, and compete() has returned False with no wait and no call after
\* it, or it took effect, and the run is in the claim window or past it.
C9_Phase2Failure ==
    \A p \in Bots :
        calls[p].mark282 = 1
        => IF p \notin likes282
           THEN Lost(p) /\ calls[p] = FetchAndMark
           ELSE pc[p] = "phase3" \/ calls[p].sleep1 = 1

C9_Witness ==
    \E p \in Bots : calls[p].mark282 = 1 /\ p \notin likes282 /\ Lost(p)

\* what C10 says of one step of bot p that leaves the fetch of 355
C10_Step(p) ==
    (pc[p] = "fetch355" /\ pc'[p] # "fetch355")
    => IF last'[p] = "nonempty"
       THEN /\ pc'[p] = "done"
            /\ verdict'[p] = (order[p][idx[p]] = p)
            /\ idx'[p] = idx[p]
       ELSE /\ last'[p] \in {"fail", "empty"}
            /\ idx'[p] = idx[p] + 1
            /\ order'[p] = order[p]
            /\ IF idx[p] = Len(order[p])
               THEN pc'[p] = "done" /\ ~verdict'[p]
               ELSE /\ pc'[p] = (IF order[p][idx'[p]] = p THEN "set355"
                                                          ELSE "sleep6")
                    /\ verdict'[p] = verdict[p]

\* C10: phase 6 verdict: a fetch of 355 that answers with a non-empty list
\* ends the run with the verdict (candidate == self_id) and the pointer where
\* it was; one that raises or answers with the empty list moves the pointer
\* to the next candidate, and past the last one returns False.
C10_Phase6Verdict == [][\A p \in Bots : C10_Step(p)]_vars

\* a run that moved past a candidate on an empty answer and then, at its own
\* place, stopped on a non-empty one
C10_Witness ==
    \E p \in Bots :
        /\ Won(p) /\ last[p] = "nonempty"
        /\ calls[p].fetch355 = 2 /\ idx[p] = 2

\* C11: the winner is the first candidate that set its 355 in its own turn:
\* a run that has returned True out of phase 6 has its own 355 on the
\* message, and no candidate before it in its order has one.
C11_WinnerConfirmedItself ==
    \A p \in Bots :
        (Won(p) /\ calls[p].fetch355 > 0)
        => /\ p \in likes355
           /\ \A j \in 1..(idx[p] - 1) : order[p][j] \notin likes355

\* the run has issued its set of 355 and the call raised
FailedOwnMark(p) == calls[p].mark355 = 1 /\ p \notin likes355

\* what C12 says of one step of bot p
C12_Step(p) ==
    /\ (pc[p] = "set355" /\ pc'[p] # "set355")
       => /\ pc'[p] = "sleep6"
          /\ idx'[p] = idx[p] /\ order'[p] = order[p]
    /\ (pc[p] = "sleep6" /\ pc'[p] # "sleep6"
            /\ order[p][idx[p]] = p /\ FailedOwnMark(p))
       => /\ pc'[p] = "fetch355"
          /\ idx'[p] = idx[p] /\ order'[p] = order[p]
    /\ (pc[p] = "fetch355" /\ pc'[p] # "fetch355"
            /\ order[p][idx[p]] = p /\ FailedOwnMark(p)
            /\ last'[p] # "nonempty")
       => /\ idx'[p] = idx[p] + 1 /\ order'[p] = order[p]
          /\ IF idx[p] < Len(order[p])
             THEN pc'[p] = "sleep6"
             ELSE pc'[p] = "done" /\ ~verdict'[p]

\* C12: a failed set of 355 at the run's own turn does not end the run:
\* the step that issues the set leads to the sleep of that turn whether the
\* call raised or not, after a raise the sleep leads to the fetch of 355 of
\* the same turn, and when that fetch shows nothing the run moves on to the
\* next candidate (past the last one it returns False).
C12_FailedConfirmGoesOn == [][\A p \in Bots : C12_Step(p)]_vars

\* a run first in its order whose set of 355 raised, and which has waited
\* and fetched for itself and for every candidate after it
C12_Witness ==
    \E p \in Bots :
        /\ FailedOwnMark(p) /\ Lost(p)
        /\ Len(order[p]) >= 2 /\ order[p][1] = p
        /\ idx[p] = Len(order[p]) + 1
        /\ calls[p].sleep6 = Len(order[p])
        /\ calls[p].fetch355 = Len(order[p])

\* the places of compete() up to the fetch of phase 4
BeforeFreeze == {"parse", "phase1", "phase2", "phase3", "phase4"}

\* what C13 says of one step of bot p
C13_Step(p) ==
    /\ calls'[p].fetch282 <= 2 /\ calls'[p].decide <= 1
    /\ (pc[p] = "phase4" /\ calls'[p].decide = 1)
       => \E S \in (SUBSET likes282) \ {{}} :
            order'[p] = _decide_order(sorted(S), msg_time[p])
    /\ pc[p] \in BeforeFreeze \ {"phase4"}
       => order'[p] = << >> /\ calls'[p].decide = 0
    /\ pc[p] \notin BeforeFreeze
       => /\ calls'[p].fetch282 = calls[p].fetch282
          /\ calls'[p].decide = calls[p].decide
          /\ order'[p] = order[p]
          /\ msg_time'[p] = msg_time[p]

\* C13: the participant set is frozen once, at the end of phase 4: the step
\* that ends phase 4 computes the order from a set of claimants fetched and
\* the message time; after it the run fetches emoji 282 no more, calls
\* _decide_order no more, and its order stays as it is whatever 282 is set
\* on the message later.
C13_FrozenOnce == [][\A p \in Bots : C13_Step(p)]_vars

\* a run that has gone through a turn of phase 6 while the message carries a
\* 282 of somebody who is not in the run's order
C13_Witness ==
    \E p \in Bots :
        /\ calls[p].decide = 1 /\ calls[p].fetch355 >= 1
        /\ calls[p].fetch282 = 2
        /\ \E q \in likes282 : q \notin Range(order[p])

Max(S) == CHOOSE m \in S : \A x \in S : x <= m

\* s lists the members of S in ascending order, each once
Ascending(s, S) ==
    /\ Len(s) = Cardinality(S)
    /\ Range(s) = S
    /\ \A i, j \in 1..Len(s) : i < j => s[i] < s[j]

TimeSlice(t) == t \div _TIME_SLICE

\* C14: _decide_order of a non-empty list is the ascending list of its
\* distinct members rotated left by base = (msg_time div _TIME_SLICE) mod n:
\* its element i is sorted[(base + i) mod n]; it names every distinct member
\* once and nobody else; for the empty list the answer is the empty order.
C14_DecideOrder ==
    call.made =>
        LET S == Range(call.users)
            n == Cardinality(S)
        IN  IF call.users = << >> THEN call.order = << >>
            ELSE /\ Len(call.order) = n
                 /\ Range(call.order) = S
                 /\ \E s \in [1..n -> S] :
                      /\ Ascending(s, S)
                      /\ \A i \in 0..(n - 1) :
                           call.order[i + 1] =
                             s[((TimeSlice(call.msg_time) + i) % n) + 1]

\* a call with a repeated member, in a slice whose base is not 0, whose
\* answer starts with neither the least member nor the first one fetched
C14_Witness ==
    /\ call.made
    /\ Len(call.users) > Cardinality(Range(call.users))
    /\ Len(call.order) >= 2
    /\ call.order[1] # Min(Range(call.users))
    /\ call.order[1] # call.users[1]

\* C15: two calls of _decide_order with the same set of members and the
\* same message time give the same order, in whatever order the members
\* were fetched and however often one is repeated.
C15_Deterministic ==
    ( /\ call.made /\ prev.made
      /\ Range(call.users) = Range(prev.users)
      /\ call.msg_time = prev.msg_time )
    => call.order = prev.order

\* two calls for the same members and time, one with the members in another
\* order, the other with a member repeated
C15_Witness ==
    /\ call.made /\ prev.made
    /\ call.msg_time = prev.msg_time
    /\ Len(call.users) # Len(prev.users)
    /\ call.users[1] # prev.users[1]
    /\ Len(call.order) >= 2
    /\ call.order = prev.order

\* the member after x in the cyclic ascending order of S
Succ(x, S) == IF x = Max(S) THEN Min(S) ELSE Min({ y \in S : y > x })

\* C16: rotation: for the same set of members, two message times in the
\* same time slice give the same order, and a message time one slice later
\* gives the order that starts with the next member in cyclic ascending
\* order, so that n slices in a row put each member first once.
C16_Rotation ==
    ( /\ call.made /\ prev.made
      /\ Range(call.users) = Range(prev.users)
      /\ call.users # << >> )
    => /\ TimeSlice(call.msg_time) = TimeSlice(prev.msg_time)
          => call.order = prev.order
       /\ TimeSlice(call.msg_time) = TimeSlice(prev.msg_time) + 1
          => call.order[1] = Succ(prev.order[1], Range(call.users))

\* the slice after the one that put the greatest of three members first
\* puts the least one first
C16_Witness ==
    /\ call.made /\ prev.made
    /\ Cardinality(round) >= 3
    /\ TimeSlice(call.msg_time) = TimeSlice(prev.msg_time) + 1
    /\ prev.order[1] = Max(round)
    /\ call.order[1] = Min(round)

\* C17: no exception leaves compete(): whichever of its channel calls raise
\* (the fetches and the sets, of emoji 282 and of emoji 355, in any phase),
\* the run of a bot that was handed the message never ends in an exception
\* and does end, with the verdict True or False.
C17_NoEscape ==
    \A p \in Bots :
        /\ [](pc[p] # "raised")
        /\ (pc[p] = "parse") ~> (Done(p) /\ verdict[p] \in BOOLEAN)

\* a run that has returned after its phase-1 fetch raised, its own set of
\* 355 raised and its last fetch of 355 raised
C17_Witness ==
    \E p \in Bots :
        /\ Done(p)
        /\ obs1[p] = "fail" /\ FailedOwnMark(p) /\ last[p] = "fail"

\* the ids convert and the raw message is a dict
IdsAndRawGood(e) ==
    Converts(e.message_id) /\ Converts(e.self_id) /\ e.raw = "dict"

\* C18: unless the ids are there and convert, the raw message is
\* a dict and its time is an integer, compete() makes no channel call and
\* the run does not go past the parsing of the event.
C18_IntegerTimeOnly ==
    \A p \in Bots :
        ~(IdsAndRawGood(evt[p]) /\ evt[p].time.kind = "int")
        => calls[p] = NoCalls /\ pc[p] \notin BeforeFreeze \ {"parse"}

\* what on_message does that costs: the debounce update, the parser call,
\* the send
Acts == {"debounce", "parse", "send"}

\* C19: on_message gates its work on the verdict: for a group message of
\* aiocqhttp, whatever it has done of the debounce update, the parser call
\* and the send, it did after compete() returned True; once compete() has
\* returned False the handler has ended and has done none of them.
C19_GatedOnVerdict ==
    (event.aiocqhttp /\ ~event.private)
    => /\ \A i \in 1..Len(trace) :
            trace[i] \in Acts => \E j \in 1..(i - 1) : trace[j] = "win"
       /\ (\E j \in 1..Len(trace) : trace[j] = "lose")
          => /\ hpc = "end"
             /\ \A i \in 1..Len(trace) : trace[i] \notin Acts

\* a group message whose compete() returned True and which was then
\* debounced, parsed and sent
C19_Witness ==
    /\ event.aiocqhttp /\ ~event.private
    /\ trace = << "win", "debounce", "parse", "send" >>
    /\ hpc = "end"

\* the orders frozen by the bots whose 282 is on the message
FrozenOrders == { order[p] : p \in likes282 }

\* C20: every bot has returned, and the bots that set emoji 282 all froze
\* the same order (the same claimants, the same message time) and went
\* through the windows of phase 6 in step; then they all stopped at the
\* same place of the order, and if that place is a candidate, that
\* candidate's run returned True and every other run returned False.
C20_InStepAgreement ==
    ( /\ \A p \in Bots : Done(p)
      /\ Cardinality(FrozenOrders) = 1
      /\ << >> \notin FrozenOrders )
    => LET O == CHOOSE o \in FrozenOrders : TRUE
       IN  /\ \A p, q \in likes282 : idx[p] = idx[q]
           /\ \A p \in likes282, q \in Bots :
                idx[p] <= Len(O) => (Won(q) <=> q = O[idx[p]])

\* what C21 says of one step of bot p out of a fetch of 355
C21_Step(p) ==
    (pc[p] = "fetch355" /\ pc'[p] # "fetch355")
    => /\ likes355 = {} => idx'[p] = idx[p] + 1
       /\ (order[p][idx[p]] = p /\ idx'[p] = idx[p]) => verdict'[p]

\* C21: a candidate that crashes, or whose set of 355 raised, loses the win
\* and holds nobody up: a run whose own set of 355 raised does not return
\* True; every bot that goes on returns, whatever the crasher does; a run
\* that fetches the 355 while none is on the message moves on to the next
\* candidate; and a run that stops on a 355 at its own turn returns True.
C21_Failover ==
    /\ [](\A p \in Bots : FailedOwnMark(p) => ~Won(p))
    /\ \A p \in Bots \ {Crasher} : (pc[p] = "parse") ~> Done(p)
    /\ [][\A p \in Bots : C21_Step(p)]_vars

\* what C22 says of one step of bot p
C22_Step(p) ==
    /\ idx'[p] \in {idx[p], idx[p] + 1}
    /\ idx'[p] # idx[p] => pc[p] \in {"phase4", "fetch355"}
    /\ calls'[p].mark355 <= 1
    /\ calls'[p].mark355 # calls[p].mark355
       => /\ order[p][idx[p]] = p /\ idx'[p] = idx[p]
          /\ calls[p].fetch355 = idx[p] - 1
    /\ (pc[p] = "fetch355" /\ last'[p] = "nonempty" /\ pc'[p] # pc[p])
       => pc'[p] = "done"
    /\ pc[p] = "done" => pc'[p] = "done" /\ calls'[p] = calls[p]

\* C22: forward only: the pointer of a run moves one candidate at a time,
\* and only out of phase 4 (to the first) or out of a fetch of 355; each
\* place gets one sleep and one fetch; the run sets emoji 355 at most once,
\* with the pointer at its own id, and after a fetch that showed a 355 it
\* has returned and makes no call any more.
C22_ForwardOnly ==
    /\ [][\A p \in Bots : C22_Step(p)]_vars
    /\ [](\A p \in Bots :
            idx[p] >= 1
            => /\ calls[p].sleep6 \in {idx[p] - 1, idx[p]}
               /\ calls[p].fetch355 \in {idx[p] - 1, idx[p]}
               /\ calls[p].fetch355 <= calls[p].sleep6)

\* a run, second of three candidates, that went through all three windows
C22_Witness ==
    \E p \in Bots :
        /\ Lost(p) /\ Len(order[p]) = 3 /\ order[p][2] = p
        /\ idx[p] = 4 /\ calls[p].mark355 = 1
        /\ calls[p].sleep6 = 3 /\ calls[p].fetch355 = 3

\* the phase a place of compete() belongs to (phase 5 has no place of its
\* own: it is the end of the step of phase 4); 0 before phase 1, 7 after the
\* return
PhaseOf(at) ==
    CASE at = "parse" -> 0
      [] at = "phase1" -> 1
      [] at = "phase2" -> 2
      [] at = "phase3" -> 3
      [] at = "phase4" -> 4
      [] at \in {"set355", "sleep6", "fetch355"} -> 6
      [] at = "done" -> 7

\* what C23 says of one step of a bot p that runs compete()
C23_Step(p) ==
    pc[p] \notin {"outsider", "raised"}
    => /\ PhaseOf(pc'[p]) >= PhaseOf(pc[p])
       /\ (pc'[p] # pc[p] /\ PhaseOf(pc[p]) # 6)
          => PhaseOf(pc'[p]) > PhaseOf(pc[p])
       /\ calls'[p] # calls[p] => PhaseOf(pc'[p]) > 0 /\ pc[p] # "done"
       /\ pc[p] # "done" => verdict'[p] = verdict[p] \/ pc'[p] = "done"
       /\ pc[p] = "done"
          => /\ pc'[p] = "done" /\ verdict'[p] = verdict[p]
             /\ calls'[p] = calls[p]

\* C23: a run goes through its phases in increasing order and enters none
\* twice; its verdict is set by the one step that ends it, and after that
\* step the run makes no channel call and no wait and its verdict stays.
C23_PhasesInOrder ==
    /\ [][\A p \in Bots : C23_Step(p)]_vars
    /\ [](\A p \in Bots :
            /\ calls[p].fetch282 <= 2 /\ calls[p].mark282 <= 1
            /\ calls[p].sleep1 <= 1 /\ calls[p].decide <= 1
            /\ pc[p] \notin {"done", "outsider"} => ~verdict[p])

\* a run that has gone through every phase and returned
C23_Witness ==
    \E p \in Bots :
        /\ Done(p)
        /\ calls[p].fetch282 = 2 /\ calls[p].mark282 = 1
        /\ calls[p].sleep1 = 1 /\ calls[p].decide = 1
        /\ calls[p].mark355 = 1 /\ calls[p].fetch355 >= 2

\* C24: every run ends, its awaits coming back: handed the message, a bot
\* reaches a verdict, having slept the claim window at most once and the
\* confirmation window at most n times, n the number of distinct users frozen
\* in its order.
C24_Terminates ==
    \A p \in Bots :
        /\ (pc[p] = "parse") ~> Done(p)
        /\ [](/\ calls[p].sleep1 <= 1
              /\ calls[p].sleep6 <= Cardinality(Range(order[p])))

\* a run that slept once per participant, all NumBots of them taking part,
\* and ended with nobody confirmed
C24_Witness ==
    \E p \in Bots :
        /\ Lost(p)
        /\ Cardinality(Range(order[p])) = NumBots
        /\ calls[p].sleep1 = 1 /\ calls[p].sleep6 = NumBots

\* the places of compete() where a channel call is awaited
CallPlaces == {"phase1", "phase2", "phase4", "set355", "fetch355"}

\* what C25 says of one step of bot p: a channel call that raised is behind
\* the run, which is at another place or, in the loop, at the next candidate
C25_Step(p) ==
    (pc[p] \in CallPlaces /\ calls'[p] # calls[p] /\ last'[p] = "fail")
    => /\ pc'[p] # pc[p]
       /\ pc[p] \in {"phase1", "phase2", "phase4"} => PhaseOf(pc'[p]) > PhaseOf(pc[p])
       /\ pc[p] = "set355" => pc'[p] = "sleep6" /\ idx'[p] = idx[p]
       /\ pc[p] = "fetch355" => idx'[p] = idx[p] + 1

\* C25: no channel call is made again within a run: a fetch or a set that
\* raised is not repeated for its step, and a run makes at most two fetches
\* of 282, one set of 282 and one fetch of 355 for each candidate of its
\* order.
C25_NoRetry ==
    /\ [][\A p \in Bots : C25_Step(p)]_vars
    /\ [](\A p \in Bots :
            /\ calls[p].fetch282 <= 2
            /\ calls[p].mark282 <= 1
            /\ calls[p].fetch355 <= Len(order[p])
            /\ calls[p].fetch355 \in {idx[p] - 1, idx[p]} \cap Nat)

\* a run in which the fetch of 355 for the first candidate raised and that
\* went on to the second candidate, with one fetch behind it
C25_Witness ==
    \E p \in Bots :
        /\ pc[p] \in {"set355", "sleep6"} /\ idx[p] = 2
        /\ last[p] = "fail" /\ calls[p].fetch355 = 1
        /\ calls[p].fetch282 = 2 /\ calls[p].mark282 = 1

\* what C26 says of the step of bot p that calls _decide_order
C26_Step(p) ==
    calls'[p].decide # calls[p].decide
    => /\ pc[p] = "phase4" /\ obs4'[p] = "nonempty"
       /\ order'[p] # << >>
       /\ pc'[p] \in {"set355", "sleep6"} /\ idx'[p] = 1

\* C26: compete() calls _decide_order with a non-empty list only, phase 4
\* having ended the run when its fetch raised or answered with the empty
\* list; the `if not order: return False` of phase 5 is taken by no run: a
\* run that computed an order and returned False went through phase 6.
C26_OrderNeverEmpty ==
    /\ [][\A p \in Bots : C26_Step(p)]_vars
    /\ [](\A p \in Bots :
            /\ calls[p].decide = 1 => order[p] # << >>
            /\ (Lost(p) /\ calls[p].decide = 1) => calls[p].fetch355 >= 1)

\* a run that froze an order of one user, not itself, and lost after its
\* one fetch of 355
C26_Witness ==
    \E p \in Bots :
        /\ Lost(p) /\ calls[p].decide = 1
        /\ Len(order[p]) = 1 /\ order[p][1] # p /\ calls[p].fetch355 = 1

\* the phase-4 fetch of bot p answered with users, p not among them
FrozenWithoutSelf(p) ==
    /\ obs4[p] = "nonempty" /\ calls[p].decide = 1
    /\ p \notin Range(order[p])

\* C27: a run whose phase-4 fetch answered with a non-empty list that does
\* not hold the bot's own id never sets emoji 355 and never returns True,
\* whatever 355 its fetches of phase 6 show.
C27_AbsentFromOwnOrder ==
    \A p \in Bots :
        FrozenWithoutSelf(p)
        => /\ calls[p].mark355 = 0 /\ pc[p] # "set355"
           /\ ~verdict[p]
           /\ Done(p) => calls[p].fetch355 >= 1

\* such a run has returned, its last fetch having shown a 355
C27_Witness ==
    \E p \in Bots :
        /\ FrozenWithoutSelf(p) /\ p \in likes282
        /\ Lost(p) /\ last[p] = "nonempty"

\* bot p is the only one handed the message
Alone(p) == \A q \in Bots \ {p} : pc[q] = "outsider"

\* C28: on a channel where every call succeeds and every fetch shows all the
\* likes set before it, a bot that runs alone on a message with no 282 and
\* no 355 on it eventually returns True, having set emoji 282 once and emoji
\* 355 once.
C28_AloneWins ==
    \A p \in Bots :
        (Alone(p) /\ pc[p] = "parse" /\ likes282 = {} /\ likes355 = {})
        ~> (Won(p) /\ calls[p].mark282 = 1 /\ calls[p].mark355 = 1)

\* the bot alone has won through phase 6, its own 355 seen by its fetch
C28_Witness ==
    \E p \in Bots :
        /\ Alone(p) /\ Won(p)
        /\ obs1[p] = "empty" /\ obs4[p] = "nonempty" /\ order[p] = << p >>
        /\ likes282 = {p} /\ likes355 = {p} /\ last[p] = "nonempty"

\* the bucket of session s holds key k with the time t, and with no other
Stored(c, s, k, t) ==
    /\ c[s].made
    /\ { e \in c[s].bucket : e.key = k } = {[ key |-> k, ts |-> t ]}

\* what C29 says of a step that is a call of _hit
C29_Step ==
    hcall'.made
    => LET s == hcall'.session
           k == hcall'.key
           r == recorded[s][k]
       IN  IF interval <= 0
           THEN ~hcall'.ret /\ _cache' = _cache
           ELSE IF ~r.hit
           THEN ~hcall'.ret /\ Stored(_cache', s, k, now)
           ELSE IF now <= r.at + interval
           THEN hcall'.ret /\ Stored(_cache', s, k, r.at)
           ELSE ~hcall'.ret /\ Stored(_cache', s, k, now)

\* C29: with a positive interval the first _hit of a session and key
\* returns False and records the time; every later _hit of the two made no
\* more than interval seconds after the recorded time returns True and
\* leaves that time as it is; the first one made later returns False and
\* records the time anew.  With interval <= 0 every _hit returns False and
\* leaves the cache as it is.
C29_Debounce ==
    /\ [][C29_Step]_vars
    /\ [](interval <= 0 => _cache = EmptyCache /\ ~hcall.ret)

\* a _hit that came later than interval after the recorded time: it has
\* returned False and recorded the time anew, another key of the session
\* being still in the bucket
C29_Witness ==
    /\ interval > 0 /\ hcall.made /\ ~hcall.ret
    /\ hcall.before.hit /\ now > hcall.before.at + interval
    /\ Stored(_cache, hcall.session, hcall.key, now)
    /\ Cardinality(_cache[hcall.session].bucket) = 2

\* what C30 says of a step that is an item assignment
C30_Step ==
    ops' # ops
    => LET k == setitem'.key
           before == keys(info_cache)
       IN  /\ \E i \in 1..Len(info_cache') :
                info_cache'[i] = [ key |-> k, value |-> setitem'.value ]
           /\ (k \notin before /\ Len(info_cache) = max_size)
              => \E old \in before :
                   /\ \A j \in before : born[old] <= born[j]
                   /\ keys(info_cache') = (before \ {old}) \cup {k}
           /\ (k \in before \/ Len(info_cache) < max_size)
              => keys(info_cache') = before \cup {k}

\* C30: a LimitedSizeDict never holds more than max_size items, whatever
\* items are assigned; and when the assignment of a new key takes it over
\* max_size, the item dropped is the one that was inserted earliest of those
\* it held, the others staying.
C30_FixedSize ==
    /\ [](/\ Len(info_cache) <= max_size
          /\ Cardinality(keys(info_cache)) = Len(info_cache))
    /\ [][C30_Step]_vars

\* the last assignment gave a new key to a full dict: the key is at the end
\* of the dict, which is full again
C30_Witness ==
    /\ setitem.made /\ setitem.new /\ setitem.full
    /\ Len(info_cache) = max_size
    /\ born[info_cache[Len(info_cache)].key] = ops
    /\ ops = MaxAssign

====
